---- MODULE Spec2Model ----
(***************************************************************************)
(* stackyter.py: run Jupyter on a distant host and display it locally.     *)
(*                                                                         *)
(* One run of main() is modelled as a pipeline of steps (pc): the command  *)
(* line is parsed, the show-config branch or the configuration resolver    *)
(* runs, the profile is overlaid on the parsed options, the options are    *)
(* validated, the hooks are normalised, the ports are drawn, the script is *)
(* assembled and handed to the shell.                                      *)
(*                                                                         *)
(* Values.  Python values (None, bool, str, list, dict) are records of one *)
(* shape [t, s, l, m]: t the type, s the text of a str as a sequence of    *)
(* tokens (a token is one character such as "," and "$", or a run of       *)
(* characters holding neither), l the items of a list, m the entries of a  *)
(* dict.                                                                   *)
(***************************************************************************)
EXTENDS Integers, Sequences, FiniteSets, TLC

VARIABLES
    pc,                \* position of main()
    argv,              \* the command line: supplied option -> value
    environ,           \* os.environ, restricted to STACKYTERCONFIG
    fs,                \* paths of the existing configuration files
    doc,               \* the YAML document the existing files hold
    args,              \* main: args
    default_args,      \* main: default_args
    configfile,        \* the located configuration file (None: none)
    config,            \* main: config, the active profile (None: none)
    merged,            \* the options as the overlay step left them
    error,             \* the uncaught exception, "" when none
    stdout,            \* what the process printed
    port,              \* main: port
    port_tensorboard,  \* main: port_tensorboard
    cmd_list,          \* main: cmd_list
    called,            \* subprocess.call was invoked
    rc,                \* the exit status subprocess.call returned
    status             \* the exit status of the process, -1 while running

vars == <<pc, argv, environ, fs, doc, args, default_args, configfile, config,
          merged, error, stdout, port, port_tensorboard, cmd_list, called, rc,
          status>>

---------------------------------------------------------------------------
(* Bounds of the model *)

\* at most MaxArgs options are given on the command line
MaxArgs == 2
\* the ports drawn are the PortSpread + 1 lowest and the PortSpread + 1
\* highest values of the range of the draw
PortSpread == 0

---------------------------------------------------------------------------
(* Python values *)

EmptyMap == [k \in {} |-> 0]

None == [t |-> "None", s |-> <<>>, l |-> <<>>, m |-> EmptyMap]
Str(toks) == [t |-> "str", s |-> toks, l |-> <<>>, m |-> EmptyMap]
Bool(b) == [t |-> "bool", s |-> <<IF b THEN "True" ELSE "False">>, l |-> <<>>, m |-> EmptyMap]
List(items) == [t |-> "list", s |-> <<>>, l |-> items, m |-> EmptyMap]
Dict(entries) == [t |-> "dict", s |-> <<>>, l |-> <<>>, m |-> entries]

True == Bool(TRUE)
False == Bool(FALSE)

\* bool(v)
Truthy(v) ==
    CASE v.t = "None" -> FALSE
      [] v.t = "bool" -> v = True
      [] v.t = "str" -> v.s # <<>>
      [] v.t = "list" -> v.l # <<>>
      [] v.t = "dict" -> DOMAIN v.m # {}

\* "{}".format(v), as tokens
Format(v) ==
    CASE v.t = "str" -> v.s
      [] v.t = "None" -> <<"None">>
      [] v.t = "bool" -> v.s
      [] v.t = "list" -> <<"[list]">>
      [] v.t = "dict" -> <<"{dict}">>

\* the text of a str of one token, as a dict key ("" otherwise)
KeyOf(v) == IF v.t = "str" /\ Len(v.s) = 1 THEN v.s[1] ELSE ""

---------------------------------------------------------------------------
(* setup_parser *)

OptNames ==
    {"config", "configfile", "host", "username", "workdir", "jupyter",
     "mysetup", "runbefore", "runafter", "compression", "showconfig",
     "tensorboard", "logdir"}

\* the default= of every add_argument
ParserDefault(opt) ==
    CASE opt = "jupyter" -> Str(<<"notebook">>)
      [] opt \in {"compression", "showconfig", "tensorboard"} -> False
      [] OTHER -> None

\* the values the parser accepts for an option given on the command line:
\* a store_true flag yields True, --jupyter one of its choices, any other
\* option a string
CliValues(opt) ==
    CASE opt = "config" -> {Str(<<"a">>), Str(<<"b">>)}
      [] opt = "configfile" -> {Str(<<"cli.yaml">>)}
      [] opt = "host" -> {Str(<<>>), Str(<<"h1">>)}
      [] opt = "username" -> {Str(<<"u">>)}
      [] opt = "workdir" -> {Str(<<"/w">>)}
      [] opt = "jupyter" -> {Str(<<"notebook">>), Str(<<"lab">>)}
      [] opt = "mysetup" -> {Str(<<"setup.sh">>)}
      [] opt = "runbefore" -> {Str(<<>>), Str(<<"echo a", ",", "echo ", "$", "b">>)}
      [] opt = "runafter" -> {Str(<<"x">>), Str(<<",", "$", "$">>)}
      [] opt = "logdir" -> {Str(<<"/log">>)}
      [] opt \in {"compression", "showconfig", "tensorboard"} -> {True}

AllCliValues == UNION {CliValues(o) : o \in OptNames}

ArgvOver(S) == {f \in [S -> AllCliValues] : \A o \in S : f[o] \in CliValues(o)}

Argvs == UNION {ArgvOver(S) : S \in {T \in SUBSET OptNames : Cardinality(T) <= MaxArgs}}

\* parser.parse_args(args=av)
parse_args(av) == [o \in OptNames |-> IF o \in DOMAIN av THEN av[o] ELSE ParserDefault(o)]

---------------------------------------------------------------------------
(* The environment: configuration files and their content *)

\* DEFAULT_CONFIG = os.getenv("HOME") + "/.stackyter-config.yaml"
DEFAULT_CONFIG == <<"$HOME/.stackyter-config.yaml">>
EnvPath == <<"env.yaml">>
CliPath == <<"cli.yaml">>

\* the paths a run can look at: the default one, the one STACKYTERCONFIG
\* holds and the one -f gives
NamedPaths(av, env) ==
    {DEFAULT_CONFIG}
        \cup {env[k].s : k \in DOMAIN env}
        \cup {av[o].s : o \in DOMAIN av \cap {"configfile"}}

Environs == {EmptyMap, [k \in {"STACKYTERCONFIG"} |-> Str(EnvPath)]}

\* profiles: option name -> value
ProfFull ==
    [host |-> Str(<<"h2">>), username |-> Str(<<"me">>), workdir |-> Str(<<"/work">>),
     jupyter |-> Str(<<"lab">>), mysetup |-> Str(<<"env.sh">>),
     runbefore |-> List(<< <<"a", "$">>, <<"b", ",", "c">> >>),
     runafter |-> Str(<<"p", ",", "q">>), compression |-> True,
     tensorboard |-> True, logdir |-> Str(<<"/tb">>), editor |-> Str(<<"vi">>)]
ProfLab == [jupyter |-> Str(<<"lab">>), tensorboard |-> True, runafter |-> List(<<>>)]
ProfMin == [host |-> Str(<<"h3">>)]
ProfEmptyHost == [host |-> Str(<<>>), jupyter |-> Str(<<"notebook">>), color |-> True]

\* documents: top-level key -> entry
Docs ==
    { [a |-> Dict(ProfFull)],
      [a |-> Dict(ProfMin), b |-> Dict(ProfLab), default_config |-> Str(<<"a">>)],
      [a |-> Dict(ProfLab), b |-> Dict(ProfEmptyHost)],
      [a |-> Dict(ProfMin), b |-> Dict(ProfFull), default_config |-> Str(<<"zz">>)],
      [b |-> Dict(ProfEmptyHost)] }

---------------------------------------------------------------------------
(* Results of a call: the value returned or the exception raised, and the
   lines printed on the way *)

Return(v, lines) == [exc |-> "", val |-> v, out |-> lines]
Raise(e, lines) == [exc |-> e, val |-> None, out |-> lines]

ErrNoAttr == "AttributeError: module 'posixpath' has no attribute 'exist'"
ErrOpen == "IOError: No such file or directory"
ErrNoSuchConfig == "IOError: Configuration does not exist. Check your default file."
ErrNoDefault == "IOError: You must define a 'default_config' in you configuration file."
ErrNoFile == "IOError: No (default) configuration file found or given. Check the doc."
ErrKey == "KeyError: the value of default_config"
ErrIndex == "IndexError: list index out of range"
ErrHost == "ValueError: You must give a valide host name (--host)"
ErrLogdir == "ValueError: You must provide a logdir path to TensorBoard (--logdir)"

\* get_default_config(only_path): os.path has no function exist, so the test
\* of line 26 raises whenever STACKYTERCONFIG is set
get_default_config(only_path) ==
    IF "STACKYTERCONFIG" \in DOMAIN environ
    THEN Raise(ErrNoAttr, <<>>)
    ELSE IF DEFAULT_CONFIG \in fs
         THEN Return(IF only_path THEN Str(DEFAULT_CONFIG) ELSE Dict(doc), <<>>)
         ELSE Return(None, <<>>)

\* list(config)[0]
FirstKey(m) == CHOOSE k \in DOMAIN m : TRUE

\* read_config taking the first entry of a file of two entries as it does the
\* only entry of a file of one
read_config_FirstOfTwo(path, key) ==
    LET loading == << <<"INFO: Loading configuration from">> \o Format(path) >>
    IN IF path.s \notin fs
       THEN Raise(ErrOpen, loading)
       ELSE IF key # None
            THEN IF KeyOf(key) \in DOMAIN doc
                 THEN Return(doc[KeyOf(key)],
                             Append(loading, <<"INFO: Using the configuration">> \o Format(key)))
                 ELSE Raise(ErrNoSuchConfig, loading)
            ELSE IF Cardinality(DOMAIN doc) > 2
                 THEN IF "default_config" \in DOMAIN doc
                      THEN LET using == Append(loading, <<"INFO: Using default configuration">>
                                                         \o Format(doc["default_config"]))
                           IN IF KeyOf(doc["default_config"]) \in DOMAIN doc
                              THEN Return(doc[KeyOf(doc["default_config"])], using)
                              ELSE Raise(ErrKey, using)
                      ELSE Raise(ErrNoDefault, loading)
                 ELSE IF DOMAIN doc = {}
                      THEN Raise(ErrIndex, loading)
                      ELSE Return(doc[FirstKey(doc)], loading)

\* read_config(config, key)
read_config(path, key) ==
    LET loading == << <<"INFO: Loading configuration from">> \o Format(path) >>
    IN IF path.s \notin fs
       THEN Raise(ErrOpen, loading)
       ELSE IF key # None
            THEN IF KeyOf(key) \in DOMAIN doc
                 THEN Return(doc[KeyOf(key)],
                             Append(loading, <<"INFO: Using the configuration">> \o Format(key)))
                 ELSE Raise(ErrNoSuchConfig, loading)
            ELSE IF Cardinality(DOMAIN doc) > 1
                 THEN IF "default_config" \in DOMAIN doc
                      THEN LET using == Append(loading, <<"INFO: Using default configuration">>
                                                         \o Format(doc["default_config"]))
                           IN IF KeyOf(doc["default_config"]) \in DOMAIN doc
                              THEN Return(doc[KeyOf(doc["default_config"])], using)
                              ELSE Raise(ErrKey, using)
                      ELSE Raise(ErrNoDefault, loading)
                 ELSE IF DOMAIN doc = {}
                      THEN Raise(ErrIndex, loading)
                      ELSE Return(doc[FirstKey(doc)], loading)

\* get_config(config, configfile): [exc, val, out, file], file the
\* configuration file it settled on
get_config(name, file) ==
    LET found == IF file = None THEN get_default_config(TRUE) ELSE Return(file, <<>>)
    IN IF found.exc # ""
       THEN [exc |-> found.exc, val |-> None, out |-> <<>>, file |-> None]
       ELSE IF name # None
            THEN IF found.val = None
                 THEN [exc |-> ErrNoFile, val |-> None, out |-> <<>>, file |-> None]
                 ELSE [file |-> found.val] @@ read_config(found.val, name)
            ELSE IF found.val # None
                 THEN [file |-> found.val] @@ read_config(found.val, None)
                 ELSE [exc |-> "", val |-> None, out |-> <<>>, file |-> None]

---------------------------------------------------------------------------
(* main: the overlay of the profile on the parsed options *)

\* args._get_kwargs(): the options, sorted by name
Kwargs ==
    <<"compression", "config", "configfile", "host", "jupyter", "logdir",
      "mysetup", "runafter", "runbefore", "showconfig", "tensorboard",
      "username", "workdir">>

\* opt in config (in a str, an option name is no part of the profile names
\* the documents hold)
InConfig(opt, cfg) == cfg.t = "dict" /\ opt \in DOMAIN cfg.m

\* the turn of the loop without the test against the baseline
OverlayOne_ProfileWins(a, d, cfg, opt) ==
    IF InConfig(opt, cfg)
    THEN [a EXCEPT ![opt] = cfg.m[opt]]
    ELSE a

\* one turn of the loop of lines 189-193
OverlayOne(a, d, cfg, opt) ==
    IF InConfig(opt, cfg) /\ a[opt] = d[opt]
    THEN [a EXCEPT ![opt] = cfg.m[opt]]
    ELSE a

RECURSIVE OverlayFrom(_, _, _, _)
OverlayFrom(a, d, cfg, i) ==
    IF i > Len(Kwargs)
    THEN a
    ELSE OverlayFrom(OverlayOne(a, d, cfg, Kwargs[i]), d, cfg, i + 1)

\* lines 188-193
Overlay(a, d, cfg) == IF cfg # None THEN OverlayFrom(a, d, cfg, 1) ELSE a

---------------------------------------------------------------------------
(* main: validation of the options and normalisation of the hooks *)

\* toks.split(","): the parts between the commas, at least one
RECURSIVE Split(_)
Split(toks) ==
    IF toks = <<>>
    THEN << <<>> >>
    ELSE LET rest == Split(Tail(toks))
         IN IF Head(toks) = ","
            THEN << <<>> >> \o rest
            ELSE << <<Head(toks)>> \o Head(rest) >> \o Tail(rest)

\* string_to_list(a), a a str, a list or None
string_to_list(a) == IF a.t = "list" \/ a = None THEN a ELSE List(Split(a.s))

\* run.replace("$", "\$")
RECURSIVE Escape(_)
Escape(toks) ==
    IF toks = <<>>
    THEN <<>>
    ELSE (IF Head(toks) = "$" THEN <<"\\", "$">> ELSE <<Head(toks)>>) \o Escape(Tail(toks))

\* lines 209-215, for one of runbefore and runafter
NormaliseHook(a) ==
    IF a # None
    THEN List([i \in 1..Len(string_to_list(a).l) |-> Escape(string_to_list(a).l[i])])
    ELSE a

\* lines 199-201
WithUser(a) ==
    IF a.username # None
    THEN [a EXCEPT !.host = Str(Format(a.username) \o <<"@">> \o Format(a.host))]
    ELSE a

\* the validation without the test of the logdir
CheckOptions_NoLogdirTest(a) ==
    IF a.host = None
    THEN [exc |-> ErrHost, args |-> a]
    ELSE [exc |-> "",
          args |-> [WithUser(a) EXCEPT !.runbefore = NormaliseHook(@),
                                       !.runafter = NormaliseHook(@)]]

\* lines 195-215: the exception raised ("" when none) and the options left
CheckOptions(a) ==
    IF a.host = None
    THEN [exc |-> ErrHost, args |-> a]
    ELSE IF Truthy(WithUser(a).tensorboard) /\ WithUser(a).logdir = None
         THEN [exc |-> ErrLogdir, args |-> WithUser(a)]
         ELSE [exc |-> "",
               args |-> [WithUser(a) EXCEPT !.runbefore = NormaliseHook(@),
                                            !.runafter = NormaliseHook(@)]]

---------------------------------------------------------------------------
(* main: the ports *)

PortLow == 1025
PortHigh == 65634

\* np.random.randint(low, high=high): any integer of [low, high)
randint(low, high) == low .. (high - 1)

\* the draws the model follows: both ends of the range
PortDraws ==
    (PortLow .. (PortLow + PortSpread)) \cup ((PortHigh - 1 - PortSpread) .. (PortHigh - 1))

---------------------------------------------------------------------------
(* main: the script.  A statement is the text of one line, the ports it
   holds, and the place of the code that appended it (kind). *)

Stmt(k, toks, ps) == [kind |-> k, text |-> toks, ports |-> ps]

\* cmd_list.extend(hooks)
HookStmts(k, items) == [i \in 1..Len(items) |-> Stmt(k, items[i], <<>>)]

\* lines 226-244
SshCmd(a, p, ptb) ==
    Stmt("ssh",
         <<"ssh ", "-", "Y", "tt">>
            \o (IF Truthy(a.compression) THEN <<"C">> ELSE <<>>)
            \o <<" ", "-L 20001:localhost:{}", " ">>
            \o (IF Truthy(a.tensorboard) THEN <<"-L 20002:localhost:{}">> ELSE <<>>)
            \o <<" ">> \o Format(a.host) \o <<" << EOF">>,
         <<p>> \o (IF Truthy(a.tensorboard) THEN <<ptb>> ELSE <<>>))

\* the preamble with the setup file sourced before the first hooks run
Preamble_SourceFirst(a) ==
    (IF a.workdir # None THEN <<Stmt("cd", <<"cd ">> \o Format(a.workdir), <<>>)>> ELSE <<>>)
    \o (IF a.mysetup # None
        THEN <<Stmt("source", <<"source ">> \o Format(a.mysetup), <<>>)>> ELSE <<>>)
    \o (IF Truthy(a.runbefore) THEN HookStmts("runbefore", a.runbefore.l) ELSE <<>>)
    \o (IF Truthy(a.runafter) THEN HookStmts("runafter", a.runafter.l) ELSE <<>>)

\* lines 246-260
Preamble(a) ==
    (IF a.workdir # None THEN <<Stmt("cd", <<"cd ">> \o Format(a.workdir), <<>>)>> ELSE <<>>)
    \o (IF Truthy(a.runbefore) THEN HookStmts("runbefore", a.runbefore.l) ELSE <<>>)
    \o (IF a.mysetup # None
        THEN <<Stmt("source", <<"source ">> \o Format(a.mysetup), <<>>)>> ELSE <<>>)
    \o (IF Truthy(a.runafter) THEN HookStmts("runafter", a.runafter.l) ELSE <<>>)

\* lines 262-272
Launch(a, p, ptb) ==
    <<Stmt("jupyter",
           <<"jupyter ">> \o Format(a.jupyter) \o <<" --no-browser --port={} --ip=127.0.0.1 &">>,
           <<p>>)>>
    \o (IF Truthy(a.tensorboard)
        THEN <<Stmt("tensorboard",
                    <<"tensorboard --logdir=">> \o Format(a.logdir) \o <<" --port={} &">>,
                    <<ptb>>)>>
        ELSE <<>>)

\* lines 274-306
Token(a, p) ==
    <<Stmt("servers", <<"export servers=(jupyter notebook list)">>, <<>>),
      Stmt("wait", <<"while servers lacks 127.0.0.1:{}; do sleep 1; ",
                     "servers=(jupyter notebook list); echo waiting...; done">>, <<p>>),
      Stmt("server", <<"export servers=(jupyter notebook list | grep 127.0.0.1:{})">>, <<p>>),
      Stmt("token", <<"export TOKEN=(echo servers | sed | grep token | sed | grep token)">>, <<>>),
      Stmt("url", <<"printf http://localhost:20001/TOKEN">>, <<>>)>>
    \o (IF Truthy(a.tensorboard)
        THEN <<Stmt("url_tensorboard", <<"printf tensorboard http://localhost:20002/">>, <<>>)>>
        ELSE <<>>)

\* lines 308-317
Closing(a) ==
    <<Stmt("fg", <<"fg">>, <<>>),
      Stmt("kill", <<"kill -9 (ps | grep jupyter | awk)">>, <<>>)>>
    \o (IF Truthy(a.tensorboard)
        THEN <<Stmt("kill_tensorboard",
                    <<"kill -9 (ps | grep tensorboard | awk)">>, <<>>)>>
        ELSE <<>>)
    \o <<Stmt("EOF", <<"EOF">>, <<>>)>>

\* lines 222-317
BuildScript(a, p, ptb) ==
    <<SshCmd(a, p, ptb)>> \o Preamble(a) \o Launch(a, p, ptb) \o Token(a, p) \o Closing(a)

\* the exit statuses of the shell
ShellStatuses == {0, 1, 255}

---------------------------------------------------------------------------
(* The run *)

Init ==
    /\ pc = "main"
    /\ argv \in Argvs
    /\ environ \in Environs
    /\ fs \in SUBSET NamedPaths(argv, environ)
    /\ doc \in Docs
    /\ args = EmptyMap
    /\ default_args = EmptyMap
    /\ configfile = None
    /\ config = None
    /\ merged = EmptyMap
    /\ error = ""
    /\ stdout = <<>>
    /\ port = 0
    /\ port_tensorboard = 0
    /\ cmd_list = <<>>
    /\ called = FALSE
    /\ rc = -1
    /\ status = -1

\* an uncaught exception ends the process with status 1
Abort(e) ==
    /\ error' = e
    /\ status' = 1
    /\ pc' = "exit"

\* lines 169-171
ParseArgs ==
    /\ pc = "main"
    /\ args' = parse_args(argv)
    /\ default_args' = parse_args(EmptyMap)
    /\ pc' = IF Truthy(parse_args(argv).showconfig) THEN "showconfig" ELSE "get_config"
    /\ UNCHANGED <<argv, environ, fs, doc, configfile, config, merged, error, stdout,
                   port, port_tensorboard, cmd_list, called, rc, status>>

\* lines 174-184
ShowConfig ==
    /\ pc = "showconfig"
    /\ LET found == get_default_config(TRUE)
       IN IF found.exc # ""
          THEN /\ Abort(found.exc)
               /\ UNCHANGED <<configfile, stdout>>
          ELSE /\ configfile' = found.val
               /\ stdout' = stdout \o
                    (IF found.val # None
                     THEN << <<"Your default configuration file contains the following configuration(s).">>,
                             <<"contents of ">> \o Format(found.val) >>
                     ELSE << <<"Error: No default configuration file found.">> >>)
               /\ status' = 0
               /\ pc' = "exit"
               /\ UNCHANGED error
    /\ UNCHANGED <<argv, environ, fs, doc, args, default_args, config, merged,
                   port, port_tensorboard, cmd_list, called, rc>>

\* line 187
GetConfig ==
    /\ pc = "get_config"
    /\ LET got == get_config(args.config, args.configfile)
       IN /\ stdout' = stdout \o got.out
          /\ configfile' = got.file
          /\ IF got.exc # ""
             THEN /\ Abort(got.exc)
                  /\ UNCHANGED config
             ELSE /\ config' = got.val
                  /\ pc' = "overlay"
                  /\ UNCHANGED <<error, status>>
    /\ UNCHANGED <<argv, environ, fs, doc, args, default_args, merged,
                   port, port_tensorboard, cmd_list, called, rc>>

\* lines 188-193
OverlayProfile ==
    /\ pc = "overlay"
    /\ args' = Overlay(args, default_args, config)
    /\ merged' = Overlay(args, default_args, config)
    /\ pc' = "check"
    /\ UNCHANGED <<argv, environ, fs, doc, default_args, configfile, config, error, stdout,
                   port, port_tensorboard, cmd_list, called, rc, status>>

\* lines 195-215
Check ==
    /\ pc = "check"
    /\ LET checked == CheckOptions(args)
       IN /\ args' = checked.args
          /\ IF checked.exc # ""
             THEN Abort(checked.exc)
             ELSE /\ pc' = "port"
                  /\ UNCHANGED <<error, status>>
    /\ UNCHANGED <<argv, environ, fs, doc, default_args, configfile, config, merged, stdout,
                   port, port_tensorboard, cmd_list, called, rc>>

\* lines 219-220
DrawPort ==
    /\ pc = "port"
    /\ \E p \in PortDraws \cap randint(PortLow, PortHigh) :
          /\ port' = p
          /\ port_tensorboard' = p + 1
    /\ pc' = "build"
    /\ UNCHANGED <<argv, environ, fs, doc, args, default_args, configfile, config, merged,
                   error, stdout, cmd_list, called, rc, status>>

\* lines 222-317
Build ==
    /\ pc = "build"
    /\ cmd_list' = BuildScript(args, port, port_tensorboard)
    /\ pc' = "call"
    /\ UNCHANGED <<argv, environ, fs, doc, args, default_args, configfile, config, merged,
                   error, stdout, port, port_tensorboard, called, rc, status>>

\* lines 319-326: the status subprocess.call returns is dropped, main returns
\* and the process ends with status 0
Call ==
    /\ pc = "call"
    /\ called' = TRUE
    /\ \E r \in ShellStatuses : rc' = r
    /\ status' = 0
    /\ pc' = "exit"
    /\ UNCHANGED <<argv, environ, fs, doc, args, default_args, configfile, config, merged,
                   error, stdout, port, port_tensorboard, cmd_list>>

Next ==
    \/ ParseArgs
    \/ ShowConfig
    \/ GetConfig
    \/ OverlayProfile
    \/ Check
    \/ DrawPort
    \/ Build
    \/ Call

Spec == Init /\ [][Next]_vars

---------------------------------------------------------------------------
(* Properties *)

\* the overlay step has run
Overlaid == DOMAIN merged # {}

\* the value the parser gave an option: the one of the command line, or the
\* one of the baseline
Parsed(o) == IF o \in DOMAIN argv THEN argv[o] ELSE default_args[o]

Given(o) == o \in DOMAIN argv

ConfigErrors ==
    {ErrOpen, ErrNoSuchConfig, ErrNoDefault, ErrNoFile, ErrKey, ErrHost, ErrLogdir}

\* C1: after the overlay step every option given on the command line has the
\* value given there, whatever the active profile holds.
C1_CommandLineWins ==
    Overlaid => \A o \in DOMAIN argv : merged[o] = argv[o]

ReadDone ==
    /\ pc \notin {"main", "showconfig", "get_config"}
    /\ ~Given("showconfig")
    /\ configfile # None
    /\ configfile.s \in fs

\* the top-level entry default_config names, if any
DefaultNamed == "default_config" \in DOMAIN doc /\ KeyOf(doc["default_config"]) \in DOMAIN doc

\* C3: read_config selects one active profile: the requested entry, or a
\* descriptive error if the name is no top-level key; with no name requested
\* the only entry of a file of one entry, else the entry default_config names,
\* and an error if default_config is absent or names no top-level entry.
C3_ProfileSelection ==
    ReadDone =>
        /\ (Given("config") /\ KeyOf(argv["config"]) \in DOMAIN doc)
              => config = doc[KeyOf(argv["config"])]
        /\ (Given("config") /\ KeyOf(argv["config"]) \notin DOMAIN doc)
              => (pc = "exit" /\ error = ErrNoSuchConfig /\ config = None)
        /\ (~Given("config") /\ Cardinality(DOMAIN doc) = 1)
              => \A k \in DOMAIN doc : config = doc[k]
        /\ (~Given("config") /\ Cardinality(DOMAIN doc) > 1 /\ DefaultNamed)
              => config = doc[KeyOf(doc["default_config"])]
        /\ (~Given("config") /\ Cardinality(DOMAIN doc) > 1 /\ ~DefaultNamed)
              => (pc = "exit" /\ error \in {ErrNoDefault, ErrKey} /\ config = None)
        /\ (config # None) => (\E k \in DOMAIN doc : config = doc[k])

\* no name is requested and the file of three top-level keys names its
\* default: that entry is the active profile
C3_Witness ==
    /\ ReadDone
    /\ ~Given("config")
    /\ Cardinality(DOMAIN doc) > 1
    /\ DefaultNamed
    /\ config = doc["a"]
    /\ config # doc["b"]

\* get_default_config has run
Located == pc \notin {"main", "showconfig", "get_config"} /\ ~Given("configfile")

\* C4: with no -f, the file $STACKYTERCONFIG names is used if the variable is
\* set and the file exists; a file-not-found error is raised if it is set
\* and the file does not exist; with the variable unset the default path is
\* used if it exists, and no file otherwise.
C4_LocateConfigFile ==
    Located =>
        /\ ("STACKYTERCONFIG" \in DOMAIN environ /\ environ["STACKYTERCONFIG"].s \in fs)
              => (configfile = environ["STACKYTERCONFIG"] /\ error # ErrNoAttr)
        /\ ("STACKYTERCONFIG" \in DOMAIN environ /\ environ["STACKYTERCONFIG"].s \notin fs)
              => (pc = "exit" /\ error \in ConfigErrors)
        /\ ("STACKYTERCONFIG" \notin DOMAIN environ /\ DEFAULT_CONFIG \in fs)
              => configfile = Str(DEFAULT_CONFIG)
        /\ ("STACKYTERCONFIG" \notin DOMAIN environ /\ DEFAULT_CONFIG \notin fs)
              => configfile = None

\* C5: the exit status of the process is the exit status of the shell when
\* that is not 0, and it is 0 only after a shell that ended with 0 or on the
\* show-config path.
C5_ExitStatusPropagated ==
    pc = "exit" =>
        /\ (called /\ rc # 0) => status = rc
        /\ status = 0 => ((called /\ rc = 0) \/ Given("showconfig"))

\* C6: with --showconfig the run ends with status 0, having printed the
\* content of the located file or the absence message, and having merged no
\* profile, validated nothing, built no script and called no shell.
C6_ShowConfigSucceeds ==
    (Given("showconfig") /\ pc = "exit") =>
        /\ status = 0
        /\ error = ""
        /\ \/ stdout = << <<"Error: No default configuration file found.">> >>
           \/ /\ Len(stdout) = 2
              /\ configfile # None
              /\ stdout[2] = <<"contents of ">> \o configfile.s
        /\ ~Overlaid
        /\ config = None
        /\ cmd_list = <<>>
        /\ ~called

\* C7: if the host is None or empty after the overlay, the run ends with a
\* configuration error, no statement assembled and no shell called.
C7_HostRequired ==
    (Overlaid /\ pc # "check" /\ (merged["host"] = None \/ merged["host"] = Str(<<>>))) =>
        /\ pc = "exit"
        /\ error \in ConfigErrors
        /\ cmd_list = <<>>
        /\ ~called

\* the file the resolver reads when -f names it, or when STACKYTERCONFIG is
\* unset and the default path has to serve
ResolverFile == IF Given("configfile") THEN argv["configfile"].s ELSE DEFAULT_CONFIG

FileRead ==
    /\ Given("configfile") \/ "STACKYTERCONFIG" \notin DOMAIN environ
    /\ ResolverFile \in fs

NoFileFound ==
    /\ ~Given("configfile")
    /\ "STACKYTERCONFIG" \notin DOMAIN environ
    /\ DEFAULT_CONFIG \notin fs

\* the merged options ask for TensorBoard and hold no logdir
TensorBoardWithoutLogdir ==
    Overlaid /\ pc # "check" /\ Truthy(merged["tensorboard"]) /\ merged["logdir"] = None

\* the cases of a configuration error C8 names
ConfigErrorCase ==
    \/ TensorBoardWithoutLogdir
    \/ Given("config") /\ NoFileFound
    \/ Given("config") /\ FileRead /\ KeyOf(argv["config"]) \notin DOMAIN doc
    \/ /\ ~Given("config")
       /\ FileRead
       /\ Cardinality(DOMAIN doc) > 1
       /\ "default_config" \notin DOMAIN doc

OfKind(k) == LET Is(st) == st.kind = k IN SelectSeq(cmd_list, Is)

\* the place of a statement in the order of C9
Rank(k) ==
    CASE k = "ssh" -> 1
      [] k = "cd" -> 2
      [] k = "runbefore" -> 3
      [] k = "source" -> 4
      [] k = "runafter" -> 5
      [] k = "jupyter" -> 6
      [] k = "tensorboard" -> 7
      [] k \in {"servers", "wait"} -> 8
      [] k \in {"server", "token"} -> 9
      [] k \in {"url", "url_tensorboard"} -> 10
      [] k = "fg" -> 11
      [] k \in {"kill", "kill_tensorboard"} -> 12
      [] k = "EOF" -> 13

\* a hook command without the backslashes the escaping added
Unescaped(toks) == LET Kept(c) == c # "\\" IN SelectSeq(toks, Kept)

\* the parts, joined by commas
RECURSIVE Joined(_)
Joined(parts) ==
    IF Len(parts) = 1
    THEN Head(parts)
    ELSE Head(parts) \o <<",">> \o Joined(Tail(parts))

\* the statements of kind k are the commands of the hook v, in their order:
\* the items of a list, the parts between the commas of a str
HooksAre(k, v) ==
    LET cmds == [i \in 1..Len(OfKind(k)) |-> Unescaped(OfKind(k)[i].text)]
    IN CASE v = None -> cmds = <<>>
         [] v.t = "list" -> cmds = v.l
         [] v.t = "str" ->
              /\ Len(cmds) >= 1
              /\ \A i \in 1..Len(cmds) : \A j \in 1..Len(cmds[i]) : cmds[i][j] # ","
              /\ Joined(cmds) = v.s

Once(k) == Len(OfKind(k)) = 1
OnceIff(k, set) == Len(OfKind(k)) = IF set THEN 1 ELSE 0

\* C9: the script lists its statements in the fixed order, the optional ones
\* exactly when their option is set, the hooks in their given order, the SSH
\* header first and the EOF terminator last.
C9_StatementOrder ==
    cmd_list # <<>> =>
        /\ \A i, j \in 1..Len(cmd_list) :
              i < j => Rank(cmd_list[i].kind) <= Rank(cmd_list[j].kind)
        /\ \A i, j \in 1..Len(cmd_list) :
              (i < j /\ Rank(cmd_list[i].kind) = Rank(cmd_list[j].kind)
                     /\ cmd_list[i].kind # cmd_list[j].kind)
                 => cmd_list[i].kind \in {"servers", "server", "url", "kill"}
        /\ cmd_list[1].kind = "ssh"
        /\ cmd_list[Len(cmd_list)].kind = "EOF"
        /\ \A k \in {"ssh", "jupyter", "servers", "wait", "server", "token", "url",
                     "fg", "kill", "EOF"} : Once(k)
        /\ OnceIff("cd", merged["workdir"] # None)
        /\ OnceIff("source", merged["mysetup"] # None)
        /\ \A k \in {"tensorboard", "url_tensorboard", "kill_tensorboard"} :
              OnceIff(k, Truthy(merged["tensorboard"]))
        /\ Len(cmd_list[1].ports) = IF Truthy(merged["tensorboard"]) THEN 2 ELSE 1
        /\ HooksAre("runbefore", merged["runbefore"])
        /\ HooksAre("runafter", merged["runafter"])

\* a script with every optional statement, two commands of a list before the
\* setup file and two parts of a str after it
C9_Witness ==
    /\ called
    /\ Once("cd")
    /\ Once("source")
    /\ Once("tensorboard")
    /\ merged["runbefore"].t = "list"
    /\ Len(OfKind("runbefore")) = 2
    /\ merged["runafter"].t = "str"
    /\ Len(OfKind("runafter")) = 2

\* C10: the two ports are distinct, unprivileged and valid: the Jupyter port
\* is at least 1025, the TensorBoard port is the next one, and both are at
\* most 65535.
C10_ValidPorts ==
    pc \in {"build", "call", "exit"} /\ port # 0 =>
        /\ 1025 <= port
        /\ port_tensorboard = port + 1
        /\ port <= 65535
        /\ port_tensorboard <= 65535

====
